---- MODULE Spec2Model ----
(***************************************************************************)
(* Client-side state synchronisation of pixeltales: the StateManager       *)
(* (state store), the HistoryManager (history cursor), the                 *)
(* CharacterManager and SpeechBubbleManager (derived effect state), the    *)
(* UIControlsManager (history controls) and the UIScene keyboard layer.    *)
(*                                                                         *)
(* Every handler is one action.  A handler is a chain of synchronous       *)
(* calls and event emissions; the chain is computed on a record `w` of     *)
(* the managers' fields.  A TypeError raised inside the chain sets         *)
(* w.threw and aborts the rest of the chain (the listeners still to be     *)
(* called by the same emit, and the code after the emit).                  *)
(***************************************************************************)
EXTENDS Integers, Sequences, FiniteSets, TLC

\* ---------------------------------------------------------------- bounds
\* Longest message log the server sends.
MaxMsgs == 3
\* Largest number of keydown-H handlers registered on the keyboard plugin.
MaxHandlers == 2
\* Longest time, in seconds, the clock runs on after an event.
MaxSeconds == 5
\* Most sockets the service creates with io().
MaxListeners == 3
MaxSockets == 2

\* ------------------------------------------------------------ constants
\* SocketService.MAX_RECONNECT_ATTEMPTS, also the reconnectionAttempts
\* option handed to io().
MAX_RECONNECT_ATTEMPTS == 5

\* ------------------------------------------------------------ input data
\* Character ids in the order Object.entries(state.characters) yields them.
Chars == <<"alice", "bob">>
CharIds == {Chars[i] : i \in 1..Len(Chars)}

\* content of a message whose turn is pending (content: null)
NullContent == "null"
\* the '' that showHistoricalBubble substitutes for a null content
EmptyText == ""

Texts == <<"hello", "hi", "bye">>
Times == <<4, 2, 0>>
Emojis == <<":)", ":|", ":(">>

\* The i-th message of the conversation the server plays (1-based).
ScriptMsg(i) ==
  [character |-> IF i % 2 = 1 THEN "bob" ELSE "alice",
   content |-> Texts[((i - 1) % Len(Texts)) + 1],
   mood_emoji |-> Emojis[((i - 1) % Len(Emojis)) + 1],
   calculated_speaking_time |-> Times[((i - 1) % Len(Times)) + 1]]

\* The log after n messages; the last one may still be pending.
Log(n, pending) ==
  [i \in 1..n |->
     IF i = n /\ pending
       THEN [ScriptMsg(i) EXCEPT !.content = NullContent]
       ELSE ScriptMsg(i)]

\* The scenes the server sends, as <<action of alice, action of bob,
\* log>>; "absent" leaves bob out of the characters mapping.  The logs
\* are the empty one, the first message, and the longest one with its
\* last turn answered or still pending; a speaking character may have
\* no message in the log.
Scenes ==
  {<<"idle", "idle", Log(0, FALSE)>>,
   <<"idle", "idle", Log(1, FALSE)>>,
   <<"thinking", "idle", Log(1, FALSE)>>,
   <<"thinking", "idle", Log(MaxMsgs, FALSE)>>,
   <<"idle", "speaking", Log(1, FALSE)>>,
   <<"idle", "speaking", Log(MaxMsgs, FALSE)>>,
   <<"idle", "speaking", Log(MaxMsgs, TRUE)>>,
   <<"speaking", "speaking", Log(1, FALSE)>>,
   <<"speaking", "speaking", Log(MaxMsgs, FALSE)>>,
   <<"speaking", "absent", Log(0, FALSE)>>,
   <<"speaking", "absent", Log(MaxMsgs, FALSE)>>}

\* The characters mapping of a snapshot: id -> action.
Roster(a, b) ==
  [c \in (IF b = "absent" THEN {"alice"} ELSE {"alice", "bob"}) |->
     IF c = "alice" THEN a ELSE b]

\* Every snapshot the server may push (SceneState).
Snapshots ==
  {[characters |-> Roster(s[1], s[2]), messages |-> s[3]] : s \in Scenes}

\* Snapshot B of the scenario: bob speaking, his message "hello" with a
\* calculated_speaking_time of 4 appended.
SnapshotB ==
  [characters |-> Roster("idle", "speaking"), messages |-> Log(1, FALSE)]

\* --------------------------------------------------------------- state
VARIABLES
  currentState,          \* StateManager.currentState: <<>> (null) or <<snapshot>>
  isInHistoryMode,       \* StateManager.isInHistoryMode
  historyMode,           \* HistoryManager.historyMode
  currentHistoryIndex,   \* HistoryManager.currentHistoryIndex (0-based, -1 = none)
  conversationHistory,   \* HistoryManager.conversationHistory
  characters,            \* CharacterManager.characters: id -> [action, tween, thinking]
  activeBubbles,         \* SpeechBubbleManager.activeBubbles: id -> [content, emoji, duration, elapsed]
  historyControls,       \* UIControlsManager: TRUE when the history controls are shown
  isInteractionEnabled,  \* UIScene.isInteractionEnabled
  keyboardEnabled,       \* UIScene.input.keyboard.enabled
  keydownHHandlers,      \* number of 'keydown-H' handlers on the keyboard plugin
  isModalOpen,           \* App: isModalOpen
  uiListenerFirst,       \* UIScene.create ran before MainScene.create
  lastPushed,            \* the snapshot of the last scene_state event, <<>> if none
  repeated,              \* the last two events pushed the same snapshot
  sinceEvent,            \* seconds of game time since the event handled last
  sockets,               \* every socket made by io(): [status, tries], oldest first
  socket,                \* SocketService.socket: an index into sockets, 0 for null
  isConnecting,          \* SocketService.isConnecting
  reconnectAttempts,     \* SocketService.reconnectAttempts
  errorsInRow,           \* connect_error events since the last connect event
  started,               \* connection attempts the handling of the last event started
  listeners,             \* SocketService.listeners: event -> listeners, oldest first
  isConnected,           \* ConnectionManager.isConnected
  reconnectAttempt,      \* ConnectionManager.reconnectAttempt
  connectionStatus,      \* ConnectionManager.connectionStatus: the text shown
  sceneRunning,          \* MainScene is created and not shut down
  sceneState,            \* App: sceneState, <<>> (null) or <<snapshot>>
  notified,              \* the listeners called while the last event was handled
  lastOp,                \* the event handled last
  threw,                 \* handling it ended in an uncaught TypeError
  emitted,               \* the historyNavigate indices emitted while handling it
  invalidFeedback        \* the invalid-navigation tweens started while handling it

vars ==
  <<currentState, isInHistoryMode, historyMode, currentHistoryIndex,
    conversationHistory, characters, activeBubbles, historyControls,
    isInteractionEnabled, keyboardEnabled, keydownHHandlers, isModalOpen,
    uiListenerFirst, lastPushed, repeated, sinceEvent, sockets, socket,
    isConnecting, reconnectAttempts, errorsInRow, started,
    listeners, isConnected, reconnectAttempt, connectionStatus,
    sceneRunning, sceneState, notified, lastOp, threw, emitted,
    invalidFeedback>>

\* The fields of the SocketService and of the ConnectionManager with the
\* observations made of them, the fields of the App and of the scene's
\* life cycle, and the fields and observations of the scene (all but
\* lastOp).
serviceVars ==
  <<sockets, socket, isConnecting, reconnectAttempts, errorsInRow, started,
    isConnected, reconnectAttempt, connectionStatus>>

channelVars == <<serviceVars, listeners>>

fanoutVars == <<sceneRunning, sceneState, notified>>

sceneVars ==
  <<currentState, isInHistoryMode, historyMode, currentHistoryIndex,
    conversationHistory, characters, activeBubbles, historyControls,
    isInteractionEnabled, keyboardEnabled, keydownHHandlers, isModalOpen,
    uiListenerFirst, lastPushed, repeated, sinceEvent, threw, emitted,
    invalidFeedback, sceneRunning, sceneState, notified>>

\* The managers' fields as one record, with the outputs of the event reset.
World ==
  [currentState |-> currentState,
   isInHistoryMode |-> isInHistoryMode,
   historyMode |-> historyMode,
   currentHistoryIndex |-> currentHistoryIndex,
   conversationHistory |-> conversationHistory,
   characters |-> characters,
   activeBubbles |-> activeBubbles,
   historyControls |-> historyControls,
   threw |-> FALSE,
   emitted |-> <<>>,
   invalidFeedback |-> 0]

Commit(w) ==
  /\ currentState' = w.currentState
  /\ isInHistoryMode' = w.isInHistoryMode
  /\ historyMode' = w.historyMode
  /\ currentHistoryIndex' = w.currentHistoryIndex
  /\ conversationHistory' = w.conversationHistory
  /\ characters' = w.characters
  /\ activeBubbles' = w.activeBubbles
  /\ historyControls' = w.historyControls
  /\ threw' = w.threw
  /\ emitted' = w.emitted
  /\ invalidFeedback' = w.invalidFeedback

NoBubbles ==
  [c \in {} |-> [content |-> EmptyText, emoji |-> EmptyText,
                 duration |-> 0, elapsed |-> 0]]
NoCharacters == [c \in {} |-> [action |-> "idle", tween |-> "null", thinking |-> FALSE]]

\* The events of SocketService's EventData that have listeners.
Events == {"scene_state", "connect", "disconnect", "connect_error"}

\* The listeners once the App is mounted and MainScene is created: the
\* App subscribes handleSceneState in its effect, the EventManager its
\* bound handleSceneStateUpdate in MainScene.create.  fn tells the
\* function objects of one owner apart.
InitialListeners ==
  [e \in Events |->
     IF e = "scene_state"
       THEN <<[owner |-> "App", fn |-> 1], [owner |-> "EventManager", fn |-> 1]>>
       ELSE <<>>]

Init ==
  /\ currentState = <<>>
  /\ isInHistoryMode = FALSE
  /\ historyMode = FALSE
  /\ currentHistoryIndex = -1
  /\ conversationHistory = <<>>
  /\ characters = NoCharacters
  /\ activeBubbles = NoBubbles
  /\ historyControls = FALSE
  /\ isInteractionEnabled = TRUE
  /\ keyboardEnabled = TRUE
  /\ keydownHHandlers = 1
  /\ isModalOpen = FALSE
  /\ uiListenerFirst \in BOOLEAN
  /\ lastPushed = <<>>
  /\ repeated = FALSE
  /\ sinceEvent = 0
  /\ sockets = <<>>
  /\ socket = 0
  /\ isConnecting = FALSE
  /\ reconnectAttempts = 0
  /\ errorsInRow = 0
  /\ started = 0
  /\ listeners = InitialListeners
  /\ isConnected = FALSE
  /\ reconnectAttempt = 0
  /\ connectionStatus = "none"
  /\ sceneRunning = TRUE
  /\ sceneState = <<>>
  /\ notified = <<>>
  /\ lastOp = "init"
  /\ threw = FALSE
  /\ emitted = <<>>
  /\ invalidFeedback = 0

\* ------------------------------------------------- CharacterManager
IsThinking(action) == action = "thinking"

updateCharacterStateOnChange(character, previous, action) ==
  [action |-> action,
   tween |-> IF action = "idle" \/ action = previous THEN "null" ELSE "running",
   thinking |-> IsThinking(action) /\ action # previous]

updateCharacterStateKeepsIndicator(character, previous, action) ==
  [action |-> action,
   tween |-> IF action = "idle"
               THEN "null"
               ELSE IF action # previous
                      THEN "running"
                      ELSE IF character.tween = "null" THEN "null"
                                                       ELSE "stopped",
   thinking |-> IsThinking(action) \/ character.thinking]

\* updateCharacterState: `previous` is the action held before the call.
updateCharacterState(character, previous, action) ==
  LET isChange == action # previous
      tween ==
        IF action = "idle"
          THEN "null"
          ELSE IF isChange
                 THEN "running"
                 ELSE IF character.tween = "null" THEN "null" ELSE "stopped"
  IN [action |-> action, tween |-> tween, thinking |-> IsThinking(action)]

\* updateCharacters: a character not yet in the map is created with
\* state: charData, so that its first updateCharacterState sees no change.
\* Characters missing from the snapshot are left in the map as they are.
updateCharacters(chars, state) ==
  [id \in (DOMAIN chars) \cup (DOMAIN state.characters) |->
     IF id \notin DOMAIN state.characters
       THEN chars[id]
       ELSE IF id \in DOMAIN chars
              THEN updateCharacterState(chars[id], chars[id].action,
                                        state.characters[id])
              ELSE updateCharacterState(
                     [action |-> state.characters[id], tween |-> "null",
                      thinking |-> FALSE],
                     state.characters[id], state.characters[id])]

clearCharacterAnimations(character) ==
  [character EXCEPT !.tween = "null", !.thinking = FALSE]

clearCharactersAnimations(chars) ==
  [id \in DOMAIN chars |-> clearCharacterAnimations(chars[id])]

\* ----------------------------------------------- SpeechBubbleManager
createProgressBarUnscaled(duration) ==
  IF duration <= 0
    THEN [duration |-> 0, elapsed |-> 0]
    ELSE [duration |-> duration, elapsed |-> 0]

\* createProgressBar(duration): the tween that scales the fill to 0 over
\* duration * 1000 ms, as [duration, elapsed] in ms; no bar is duration 0.
createProgressBar(duration) ==
  IF duration <= 0
    THEN [duration |-> 0, elapsed |-> 0]
    ELSE [duration |-> duration * 1000, elapsed |-> 0]

\* createSpeechBubble: the text, the mood glyph and, for a speaking time,
\* the progress bar; activeBubbles.set(characterId, ...) replaces the
\* entry of that character.
createSpeechBubble(bubbles, characterId, content, speakingTime, emoji) ==
  LET progressBar == createProgressBar(speakingTime)
  IN [id \in (DOMAIN bubbles) \cup {characterId} |->
        IF id = characterId
          THEN [content |-> content,
                emoji |-> emoji,
                duration |-> progressBar.duration,
                elapsed |-> progressBar.elapsed]
          ELSE bubbles[id]]

\* state.messages.filter((m) => m.character === key)
MessagesOf(messages, key) ==
  SelectSeq(messages, LAMBDA m : m.character = key)

Truthy(content) == content # NullContent /\ content # EmptyText

\* The loop of updateBubbles from the i-th character on; acc is
\* [bubbles, threw].  `character && message.content` raises a TypeError
\* when the character exists and has no message.
RECURSIVE bubblesLoop(_, _, _, _)
bubblesLoop(i, acc, chars, state) ==
  IF i > Len(Chars) \/ acc.threw
    THEN acc
    ELSE
      LET key == Chars[i]
          mine == IF key \in DOMAIN state.characters
                    THEN MessagesOf(state.messages, key) ELSE <<>>
      IN IF key \notin DOMAIN state.characters
            \/ state.characters[key] # "speaking"
           THEN bubblesLoop(i + 1, acc, chars, state)
           ELSE IF key \notin DOMAIN chars
             THEN bubblesLoop(i + 1, acc, chars, state)
             ELSE IF Len(mine) = 0
               THEN [acc EXCEPT !.threw = TRUE]
               ELSE
                 LET message == mine[Len(mine)]
                 IN IF Truthy(message.content)
                      THEN bubblesLoop(
                             i + 1,
                             [acc EXCEPT !.bubbles =
                                createSpeechBubble(
                                  acc.bubbles, key, message.content,
                                  message.calculated_speaking_time,
                                  message.mood_emoji)],
                             chars, state)
                      ELSE bubblesLoop(i + 1, acc, chars, state)

updateBubblesAnyAction(chars, state) ==
  bubblesLoop(1, [bubbles |-> NoBubbles, threw |-> FALSE], chars,
              [state EXCEPT !.characters =
                 [c \in DOMAIN state.characters |-> "speaking"]])

\* updateBubbles: clearBubbles, then the loop.
updateBubbles(chars, state) ==
  bubblesLoop(1, [bubbles |-> NoBubbles, threw |-> FALSE], chars, state)

showHistoricalBubbleTimed(chars, message) ==
  IF message = <<>>
    THEN [bubbles |-> NoBubbles, threw |-> TRUE]
    ELSE
      LET m == message[1]
      IN IF m.character \in DOMAIN chars
           THEN [bubbles |->
                   createSpeechBubble(
                     NoBubbles, m.character,
                     IF m.content = NullContent THEN EmptyText ELSE m.content,
                     m.calculated_speaking_time, m.mood_emoji),
                 threw |-> FALSE]
           ELSE [bubbles |-> NoBubbles, threw |-> FALSE]

\* showHistoricalBubble(message): `message` is <<>> for undefined, which
\* raises a TypeError at message.character after the bubbles are cleared.
showHistoricalBubble(chars, message) ==
  IF message = <<>>
    THEN [bubbles |-> NoBubbles, threw |-> TRUE]
    ELSE
      LET m == message[1]
      IN IF m.character \in DOMAIN chars
           THEN [bubbles |->
                   createSpeechBubble(
                     NoBubbles, m.character,
                     IF m.content = NullContent THEN EmptyText ELSE m.content,
                     0, m.mood_emoji),
                 threw |-> FALSE]
           ELSE [bubbles |-> NoBubbles, threw |-> FALSE]

\* messages[index] of a 0-based index: <<m>>, or <<>> for undefined.
At(messages, index) ==
  IF index >= 0 /\ index < Len(messages) THEN <<messages[index + 1]>> ELSE <<>>

\* ----------------------------------------------------- StateManager
\* game.events 'sceneStateUpdate' -> the HistoryManager's listener.
sceneStateUpdate(w, state) ==
  IF ~w.historyMode
    THEN [w EXCEPT !.conversationHistory = state.messages,
                   !.currentHistoryIndex = Len(state.messages) - 1]
    ELSE w

\* this.currentState = newState
storeStateLiveOnly(w, newState) ==
  IF w.isInHistoryMode THEN w ELSE [w EXCEPT !.currentState = <<newState>>]

storeState(w, newState) == [w EXCEPT !.currentState = <<newState>>]

\* The live branch of updateState: updateCharacters, updateBubbles and
\* the emit of 'sceneStateUpdate', which a TypeError in updateBubbles
\* leaves out.
renderLive(w, newState) ==
  LET chars == updateCharacters(w.characters, newState)
      b == updateBubbles(chars, newState)
      w2 == [w EXCEPT !.characters = chars,
                      !.activeBubbles = b.bubbles,
                      !.threw = b.threw]
  IN IF w2.threw THEN w2 ELSE sceneStateUpdate(w2, newState)

updateStateInAnyMode(w, newState) ==
  renderLive(storeState(w, newState), newState)

updateStateRefreshesLog(w, newState) ==
  LET w1 == storeState(w, newState)
  IN IF w1.isInHistoryMode
       THEN [w1 EXCEPT !.conversationHistory = newState.messages,
                       !.currentHistoryIndex = Len(newState.messages) - 1]
       ELSE renderLive(w1, newState)

\* A variant that skips a snapshot equal to the current one, so the
\* effects of the previous render (and their countdowns) are kept.
updateStateSkipsDuplicate(w, newState) ==
  IF w.currentState = <<newState>>
    THEN w
    ELSE LET w1 == storeState(w, newState)
         IN IF w1.isInHistoryMode THEN w1 ELSE renderLive(w1, newState)

\* StateManager.updateState(newState)
updateState(w, newState) ==
  LET w1 == storeState(w, newState)
  IN IF w1.isInHistoryMode THEN w1 ELSE renderLive(w1, newState)

\* A variant that assigns the flag after the render, so that a render
\* that throws leaves the flag as it was.
historyModeChangeFlagLast(w, flag) ==
  IF w.currentState = <<>>
    THEN [w EXCEPT !.isInHistoryMode = flag]
    ELSE
      LET state == w.currentState[1]
          r == IF flag
                 THEN
                   LET b == showHistoricalBubble(
                              w.characters,
                              At(state.messages, Len(state.messages) - 1))
                   IN [w EXCEPT !.activeBubbles = b.bubbles,
                                !.threw = b.threw]
                 ELSE
                   LET chars == updateCharacters(w.characters, state)
                       b == updateBubbles(chars, state)
                   IN [w EXCEPT !.characters = chars,
                                !.activeBubbles = b.bubbles,
                                !.threw = b.threw]
      IN IF r.threw THEN r ELSE [r EXCEPT !.isInHistoryMode = flag]

\* StateManager.historyModeChange(isInHistoryMode)
historyModeChange(w, flag) ==
  LET w1 == [w EXCEPT !.isInHistoryMode = flag]
  IN IF w1.currentState = <<>>
       THEN w1
       ELSE
         LET state == w1.currentState[1]
         IN IF flag
              THEN
                LET b == showHistoricalBubble(
                           w1.characters,
                           At(state.messages, Len(state.messages) - 1))
                IN [w1 EXCEPT !.activeBubbles = b.bubbles, !.threw = b.threw]
              ELSE
                LET chars == updateCharacters(w1.characters, state)
                    b == updateBubbles(chars, state)
                IN [w1 EXCEPT !.characters = chars,
                              !.activeBubbles = b.bubbles,
                              !.threw = b.threw]

\* StateManager.navigateHistory(index)
StateManager_navigateHistory(w, index) ==
  IF w.isInHistoryMode /\ w.currentState # <<>>
     /\ At(w.currentState[1].messages, index) # <<>>
    THEN
      LET b == showHistoricalBubble(
                 w.characters, At(w.currentState[1].messages, index))
      IN [w EXCEPT !.activeBubbles = b.bubbles, !.threw = b.threw]
    ELSE w

\* ------------------------------------- game.events 'historyModeChange'
\* CharacterManager.handleHistoryModeChange
characterManagerListener(w, flag) ==
  IF flag
    THEN [w EXCEPT !.characters = clearCharactersAnimations(w.characters)]
    ELSE w

\* UIControlsManager's listener: updateControlsVisibility reads
\* historyManager.isInHistoryMode(), shows play or pause, and creates or
\* removes the navigation buttons.
controlsListener(w) == [w EXCEPT !.historyControls = w.historyMode]

\* The listeners in registration order.  MainScene.create registers the
\* CharacterManager's and then the EventManager's, UIScene.create the
\* UIControlsManager's; which scene is created first is the order in
\* which their loaders complete.
modeListener(w, flag, name) ==
  IF w.threw
    THEN w
    ELSE CASE name = "controls" -> controlsListener(w)
           [] name = "character" -> characterManagerListener(w, flag)
           [] name = "event" -> historyModeChange(w, flag)

emitHistoryModeChange(w, flag, uiFirst) ==
  LET order == IF uiFirst
                 THEN <<"controls", "character", "event">>
                 ELSE <<"character", "event", "controls">>
  IN modeListener(
       modeListener(modeListener(w, flag, order[1]), flag, order[2]),
       flag, order[3])

\* --------------------------------------------------- HistoryManager
handleEnterHistoryMode(w, uiFirst) ==
  emitHistoryModeChange(
    [w EXCEPT !.historyMode = TRUE,
              !.currentHistoryIndex = Len(w.conversationHistory) - 1],
    TRUE, uiFirst)

handleExitHistoryMode(w, uiFirst) ==
  emitHistoryModeChange(
    [w EXCEPT !.historyMode = FALSE,
              !.currentHistoryIndex = Len(w.conversationHistory) - 1],
    FALSE, uiFirst)

\* A variant that admits the sentinel -1 as a target of navigation.
inBoundsFromSentinel(newIndex, length) == newIndex >= -1 /\ newIndex < length

inBoundsInclusive(newIndex, length) == newIndex >= 0 /\ newIndex <= length

\* newIndex >= 0 && newIndex < this.conversationHistory.length
inBounds(newIndex, length) == newIndex >= 0 /\ newIndex < length

\* HistoryManager.navigateHistory(direction), reached from the
\* 'historyNavigateTo' event.  The feedback tween needs the navigation
\* button, which exists while the history controls are shown.
navigateHistory(w, direction) ==
  LET newIndex == w.currentHistoryIndex + direction
  IN IF inBounds(newIndex, Len(w.conversationHistory))
       THEN StateManager_navigateHistory(
              [w EXCEPT !.currentHistoryIndex = newIndex,
                        !.emitted = Append(w.emitted, newIndex)],
              newIndex)
       ELSE IF w.historyControls
              THEN [w EXCEPT !.invalidFeedback = w.invalidFeedback + 1]
              ELSE w

\* ---------------------------------------------------------- UIScene
\* One 'keydown-H' handler.
keydownH(w, enabled, uiFirst) ==
  IF ~enabled
    THEN w
    ELSE IF w.historyMode
           THEN handleExitHistoryMode(w, uiFirst)
           ELSE handleEnterHistoryMode(w, uiFirst)

\* The keyboard plugin's emit('keydown-H'): the n registered handlers in
\* turn; a TypeError in one leaves the later ones uncalled.
RECURSIVE emitKeydownH(_, _, _, _)
emitKeydownH(w, n, enabled, uiFirst) ==
  IF n = 0 \/ w.threw
    THEN w
    ELSE emitKeydownH(keydownH(w, enabled, uiFirst), n - 1, enabled, uiFirst)

\* handleKeyboardInput on the frame in which an arrow key is JustDown.
handleKeyboardInput(w, enabled, direction) ==
  IF ~enabled
    THEN w
    ELSE IF ~w.historyMode
           THEN w
           ELSE navigateHistory(w, direction)

\* ---------------------------------------------------------- actions
UnchangedInput ==
  UNCHANGED <<isInteractionEnabled, keyboardEnabled, keydownHHandlers,
              isModalOpen, uiListenerFirst>>

\* An event other than scene_state.
Handled(op) ==
  /\ lastOp' = op
  /\ repeated' = FALSE
  /\ sinceEvent' = 0
  /\ UNCHANGED lastPushed
  /\ UNCHANGED channelVars
  /\ UNCHANGED fanoutVars

\* The socket's scene_state event: EventManager.handleSceneStateUpdate.
Push(s) ==
  /\ Commit(updateState(World, s))
  /\ lastPushed' = <<s>>
  /\ repeated' = (lastOp = "push" /\ lastPushed = <<s>>)
  /\ sinceEvent' = 0
  /\ lastOp' = "push"
  /\ UNCHANGED channelVars
  /\ UNCHANGED fanoutVars
  /\ UnchangedInput

\* The H key goes down.  A disabled keyboard plugin emits nothing.
KeyH ==
  /\ Commit(IF keyboardEnabled
              THEN emitKeydownH(World, keydownHHandlers,
                                isInteractionEnabled, uiListenerFirst)
              ELSE World)
  /\ Handled("keyH")
  /\ UnchangedInput

\* The LEFT (-1) or RIGHT (+1) key goes down.
KeyArrow(d) ==
  /\ Commit(IF keyboardEnabled
              THEN handleKeyboardInput(World, isInteractionEnabled, d)
              ELSE World)
  /\ Handled((IF d = -1 THEN "keyLeft" ELSE "keyRight"))
  /\ UnchangedInput

\* The pause button, shown with the live controls, is clicked.
ClickPause ==
  /\ ~historyControls
  /\ Commit(handleEnterHistoryMode(World, uiListenerFirst))
  /\ Handled("clickPause")
  /\ UnchangedInput

\* The play button, shown with the history controls, is clicked.
ClickPlay ==
  /\ historyControls
  /\ Commit(handleExitHistoryMode(World, uiListenerFirst))
  /\ Handled("clickPlay")
  /\ UnchangedInput

\* A navigation button (prev -1, next +1) is clicked; the buttons exist
\* while the history controls are shown.
ClickNav(d) ==
  /\ historyControls
  /\ Commit(navigateHistory(World, d))
  /\ Handled((IF d = -1 THEN "clickPrev" ELSE "clickNext"))
  /\ UnchangedInput

modalOpenKeepsInput == [isInteractionEnabled |-> TRUE, keyboardEnabled |-> TRUE]

\* UIScene's 'modalOpen' handler
modalOpen == [isInteractionEnabled |-> FALSE, keyboardEnabled |-> FALSE]

\* UIScene's 'modalClose' handler
modalClose == [isInteractionEnabled |-> TRUE, keyboardEnabled |-> TRUE]

\* App sets isModalOpen and emits 'modalOpen' to the scenes.
ModalOpen ==
  /\ ~isModalOpen
  /\ keydownHHandlers < MaxHandlers
  /\ isModalOpen' = TRUE
  /\ isInteractionEnabled' = modalOpen.isInteractionEnabled
  /\ keyboardEnabled' = modalOpen.keyboardEnabled
  /\ Commit(World)
  /\ Handled("modalOpen")
  /\ UNCHANGED <<keydownHHandlers, uiListenerFirst>>

\* App clears isModalOpen and emits 'modalClose': the handler calls
\* setupKeyboardControls again and so registers one more keydown-H handler.
ModalClose ==
  /\ isModalOpen
  /\ isModalOpen' = FALSE
  /\ isInteractionEnabled' = modalClose.isInteractionEnabled
  /\ keyboardEnabled' = modalClose.keyboardEnabled
  /\ keydownHHandlers' = keydownHHandlers + 1
  /\ Commit(World)
  /\ Handled("modalClose")
  /\ UNCHANGED uiListenerFirst

Next ==
  \/ \E s \in Snapshots : Push(s)
  \/ KeyH
  \/ \E d \in {-1, 1} : KeyArrow(d)
  \/ ClickPause
  \/ ClickPlay
  \/ \E d \in {-1, 1} : ClickNav(d)
  \/ ModalOpen
  \/ ModalClose

Spec == Init /\ [][Next]_vars

\* ------------------------------------------------ the tween manager
\* One second of game time: every progress-bar tween advances by 1000 ms
\* and stays at its end once it has run for its duration.
advanceTweens(bubbles) ==
  [id \in DOMAIN bubbles |->
     [bubbles[id] EXCEPT !.elapsed =
        IF @ + 1000 > bubbles[id].duration THEN bubbles[id].duration
                                          ELSE @ + 1000]]

Tick ==
  /\ sinceEvent < MaxSeconds
  /\ sinceEvent' = sinceEvent + 1
  /\ activeBubbles' = advanceTweens(activeBubbles)
  /\ UNCHANGED <<currentState, isInHistoryMode, historyMode,
                 currentHistoryIndex, conversationHistory, characters,
                 historyControls, lastPushed, repeated, lastOp, threw,
                 emitted, invalidFeedback>>
  /\ UNCHANGED channelVars
  /\ UNCHANGED fanoutVars
  /\ UnchangedInput

\* The scene in Live mode with the clock running: snapshots and seconds.
TimedNext ==
  \/ \E s \in Snapshots : Push(s)
  \/ Tick

TimedSpec == Init /\ [][TimedNext]_vars

\* ---------------------------------------------------- SocketService
\* A socket of socket.io-client is "opening" (first attempt in flight),
\* "connected", "reconnecting" (the manager's automatic reconnection in
\* flight; tries counts its attempts) or "closed" (no attempt in flight:
\* torn down by disconnect(), disconnected by the server, or given up
\* after reconnectionAttempts attempts).
InFlight == {"opening", "reconnecting"}

\* The service's fields and those of the ConnectionManager as one
\* record; started counts the connection attempts started while the
\* event is handled.
Channel ==
  [sockets |-> sockets,
   socket |-> socket,
   isConnecting |-> isConnecting,
   reconnectAttempts |-> reconnectAttempts,
   started |-> 0,
   listeners |-> listeners,
   isConnected |-> isConnected,
   reconnectAttempt |-> reconnectAttempt,
   connectionStatus |-> connectionStatus]

CommitChannel(c) ==
  /\ sockets' = c.sockets
  /\ socket' = c.socket
  /\ isConnecting' = c.isConnecting
  /\ reconnectAttempts' = c.reconnectAttempts
  /\ started' = c.started
  /\ listeners' = c.listeners
  /\ isConnected' = c.isConnected
  /\ reconnectAttempt' = c.reconnectAttempt
  /\ connectionStatus' = c.connectionStatus

\* ConnectionManager.updateConnectionStatus(): the text of the indicator.
\* Only the 'Connected' text fades out, three seconds after it is set.
updateConnectionStatus(c) ==
  [c EXCEPT !.connectionStatus =
     IF c.isConnected THEN "Connected"
     ELSE IF c.reconnectAttempt > 0 THEN "Reconnecting"
     ELSE "Disconnected"]

\* ConnectionManager.onConnect, onDisconnect and onConnectError
ConnectionManager_onConnect(c) ==
  updateConnectionStatus([c EXCEPT !.isConnected = TRUE,
                                   !.reconnectAttempt = 0])

ConnectionManager_onDisconnect(c) ==
  updateConnectionStatus([c EXCEPT !.isConnected = FALSE])

ConnectionManager_onConnectError(c) ==
  updateConnectionStatus([c EXCEPT !.reconnectAttempt = @ + 1])

\* SocketService.addListener: a Set keeps one entry per function object,
\* in the order of insertion.
addListener(ls, l) ==
  IF \E k \in DOMAIN ls : ls[k] = l THEN ls ELSE Append(ls, l)

\* SocketService.removeListener: Set.delete of that function object.
removeListener(ls, l) == SelectSeq(ls, LAMBDA x : x # l)

\* The ConnectionManager's listener of each connection event.
PresenterListener == [owner |-> "ConnectionManager", fn |-> 1]

\* ConnectionManager.initialize(): the indicator, setupEventListeners()
\* and the first updateConnectionStatus().
initialize(c) ==
  updateConnectionStatus(
    [c EXCEPT !.listeners =
       [e \in Events |->
          IF e = "scene_state" THEN @[e]
                               ELSE addListener(@[e], PresenterListener)]])

\* The callback a listener of a connection event runs.
callback(c, event, l) ==
  IF l.owner # "ConnectionManager" THEN c
  ELSE IF event = "connect" THEN ConnectionManager_onConnect(c)
  ELSE IF event = "disconnect" THEN ConnectionManager_onDisconnect(c)
  ELSE ConnectionManager_onConnectError(c)

RECURSIVE notifyEach(_, _, _)
notifyEach(c, event, ls) ==
  IF ls = <<>> THEN c
  ELSE notifyEach(callback(c, event, Head(ls)), event, Tail(ls))

\* SocketService.notifyListeners for a connection event: the listeners
\* of the event, oldest first.
notifyListeners(c, event) == notifyEach(c, event, c.listeners[event])

\* this.socket?.connected
socketConnected(c) ==
  c.socket # 0 /\ c.sockets[c.socket].status = "connected"

\* SocketService.connect(): the guard, then io() and the handlers.
connect(c) ==
  IF socketConnected(c) \/ c.isConnecting
    THEN c
    ELSE [c EXCEPT !.isConnecting = TRUE,
                   !.sockets = Append(@, [status |-> "opening", tries |-> 0]),
                   !.socket = Len(c.sockets) + 1,
                   !.started = @ + 1]

\* Socket.connect() on socket i: opens a socket that is closed, nothing
\* on a socket that is connected or has an attempt in flight.
socketConnect(c, i) ==
  IF c.sockets[i].status = "closed"
    THEN [c EXCEPT !.sockets[i].status = "opening", !.started = @ + 1]
    ELSE c

\* The 'disconnect' handler: this.socket?.connect() for a server
\* disconnect.
onDisconnect(c, reason) ==
  LET c1 == notifyListeners([c EXCEPT !.isConnecting = FALSE], "disconnect")
  IN IF reason = "io server disconnect" /\ c1.socket # 0
       THEN socketConnect(c1, c1.socket)
       ELSE c1

\* SocketService.disconnect(): Socket.disconnect() on this.socket, which
\* emits 'disconnect' at once if the socket was connected.
disconnect(c) ==
  IF c.socket = 0
    THEN c
    ELSE
      LET i == c.socket
          closed == [c EXCEPT !.sockets[i].status = "closed"]
          c1 == IF c.sockets[i].status = "connected"
                  THEN onDisconnect(closed, "io client disconnect")
                  ELSE closed
      IN [c1 EXCEPT !.socket = 0, !.isConnecting = FALSE]

onConnectKeepsCount(c) ==
  notifyListeners([c EXCEPT !.isConnecting = FALSE], "connect")

\* The 'connect' handler.
onConnect(c) ==
  notifyListeners([c EXCEPT !.reconnectAttempts = 0, !.isConnecting = FALSE],
                  "connect")

\* The 'connect_error' handler.
onConnectError(c) ==
  LET c1 == notifyListeners([c EXCEPT !.reconnectAttempts = @ + 1],
                            "connect_error")
  IN IF c1.reconnectAttempts >= MAX_RECONNECT_ATTEMPTS
       THEN disconnect(c1)
       ELSE c1

\* The 'error' handler.
onError(c) == [c EXCEPT !.isConnecting = FALSE]

\* The manager after a failed attempt of socket i: the next attempt,
\* unless the socket was torn down meanwhile or reconnectionAttempts
\* attempts have been made.
reconnect(c, i) ==
  IF c.sockets[i].status = "closed"
    THEN c
    ELSE IF c.sockets[i].tries < MAX_RECONNECT_ATTEMPTS
           THEN [c EXCEPT !.sockets[i].status = "reconnecting",
                          !.sockets[i].tries = @ + 1]
           ELSE [c EXCEPT !.sockets[i].status = "closed"]

UnchangedScene == UNCHANGED sceneVars

\* ------------------------------------------ the scene_state listeners
\* The handlers the EventManagers have bound and subscribed so far.
boundHandlers(ls) == Len(SelectSeq(ls, LAMBDA l : l.owner = "EventManager"))

\* this.handleSceneStateUpdate.bind(this): a new function object at
\* every call.
bind(ls) == [owner |-> "EventManager", fn |-> boundHandlers(ls) + 1]

\* EventManager.setupEventListeners(): the socket listener.
EventManager_setupEventListeners(ls) == addListener(ls, bind(ls))

\* EventManager.destroy(): the socket listener.
EventManager_destroy(ls) == removeListener(ls, bind(ls))

\* What a fan-out works on: the managers, the App's state and the
\* listeners called so far.
Fanout == [w |-> World, sceneState |-> sceneState, notified |-> <<>>]

\* App: handleSceneState
handleSceneState(f, state) == [f EXCEPT !.sceneState = <<state>>]

\* EventManager.handleSceneStateUpdate of the handler bound last: the
\* StateManager of the scene's current managers.
handleSceneStateUpdate(f, state) == [f EXCEPT !.w = updateState(@, state)]

\* EventManager.handleSceneStateUpdate of a handler bound earlier: the
\* StateManager of managers that a shutdown has destroyed, in Live mode.
\* Its sprites and bubbles are not followed; the 'sceneStateUpdate' it
\* emits reaches the HistoryManager, and its TypeError the fan-out.
staleHandleSceneStateUpdate(f, state) ==
  LET r == updateState([f.w EXCEPT !.currentState = <<>>,
                                   !.isInHistoryMode = FALSE,
                                   !.characters = NoCharacters,
                                   !.activeBubbles = NoBubbles],
                       state)
  IN [f EXCEPT !.w.conversationHistory = r.conversationHistory,
               !.w.currentHistoryIndex = r.currentHistoryIndex,
               !.w.threw = r.threw]

\* callback(data) for one listener of 'scene_state'; an exception of an
\* earlier callback has ended the forEach.
notifyOne(f, state, l, ls) ==
  IF f.w.threw
    THEN f
    ELSE
      LET g == [f EXCEPT !.notified = Append(@, l)]
      IN IF l.owner = "App" THEN handleSceneState(g, state)
         ELSE IF l.owner # "EventManager" THEN g
         ELSE IF l.fn = boundHandlers(ls)
                THEN handleSceneStateUpdate(g, state)
                ELSE staleHandleSceneStateUpdate(g, state)

RECURSIVE notifyFrom(_, _, _, _)
notifyFrom(f, state, k, ls) ==
  IF k > Len(ls) THEN f
  ELSE notifyFrom(notifyOne(f, state, ls[k], ls), state, k + 1, ls)

\* SocketService.notifyListeners('scene_state', state)
notifySceneState(f, state, ls) == notifyFrom(f, state, 1, ls)

\* The socket's scene_state event with its whole fan-out.
Deliver(s) ==
  LET f == notifySceneState(Fanout, s, listeners["scene_state"])
  IN /\ Commit(f.w)
     /\ sceneState' = f.sceneState
     /\ notified' = f.notified
     /\ lastPushed' = <<s>>
     /\ repeated' = (lastOp = "push" /\ lastPushed = <<s>>)
     /\ sinceEvent' = 0
     /\ lastOp' = "push"
     /\ UNCHANGED channelVars
     /\ UNCHANGED sceneRunning
     /\ UnchangedInput

\* MainScene.handleShutdown: eventManager.destroy(),
\* speechBubbleManager.destroy() and characterManager.destroy().
SceneShutdown ==
  /\ sceneRunning
  /\ Len(listeners["scene_state"]) < MaxListeners
  /\ sceneRunning' = FALSE
  /\ listeners' = [listeners EXCEPT !["scene_state"] = EventManager_destroy(@)]
  /\ Commit([World EXCEPT !.characters = NoCharacters,
                          !.activeBubbles = NoBubbles])
  /\ lastOp' = "shutdown"
  /\ repeated' = FALSE
  /\ sinceEvent' = 0
  /\ notified' = <<>>
  /\ UNCHANGED <<lastPushed, sceneState>>
  /\ UNCHANGED serviceVars
  /\ UnchangedInput

\* The scene starts again: MainScene.init() makes new managers and
\* resets them, MainScene.create() subscribes the new EventManager.  Its
\* game.events listeners now come after the UIControlsManager's.
SceneCreate ==
  /\ ~sceneRunning
  /\ sceneRunning' = TRUE
  /\ listeners' =
       [listeners EXCEPT !["scene_state"] = EventManager_setupEventListeners(@)]
  /\ Commit([World EXCEPT !.currentState = <<>>,
                          !.isInHistoryMode = FALSE,
                          !.characters = NoCharacters,
                          !.activeBubbles = NoBubbles])
  /\ uiListenerFirst' = TRUE
  /\ lastOp' = "create"
  /\ repeated' = FALSE
  /\ sinceEvent' = 0
  /\ notified' = <<>>
  /\ UNCHANGED <<lastPushed, sceneState>>
  /\ UNCHANGED serviceVars
  /\ UNCHANGED <<isInteractionEnabled, keyboardEnabled, keydownHHandlers,
                 isModalOpen>>

FanoutNext ==
  \/ \E s \in Snapshots : Deliver(s)
  \/ SceneShutdown
  \/ SceneCreate

FanoutSpec == Init /\ [][FanoutNext]_vars

\* UIScene.create: connectionManager.initialize().
Initialize ==
  /\ connectionStatus = "none"
  /\ CommitChannel(initialize(Channel))
  /\ lastOp' = "initialize"
  /\ UNCHANGED errorsInRow
  /\ UnchangedScene

\* A caller calls connect().
CallConnect ==
  /\ socketConnected(Channel) \/ isConnecting \/ Len(sockets) < MaxSockets
  /\ CommitChannel(connect(Channel))
  /\ lastOp' = "connect()"
  /\ UNCHANGED errorsInRow
  /\ UnchangedScene

\* A caller calls disconnect().
CallDisconnect ==
  /\ CommitChannel(disconnect(Channel))
  /\ lastOp' = "disconnect()"
  /\ UNCHANGED errorsInRow
  /\ UnchangedScene

\* The attempt in flight on socket i succeeds: 'connect'.
Connected(i) ==
  /\ sockets[i].status \in InFlight
  /\ CommitChannel(
       onConnect([Channel EXCEPT !.sockets[i] =
                    [status |-> "connected", tries |-> 0]]))
  /\ lastOp' = "connect"
  /\ errorsInRow' = 0
  /\ UnchangedScene

\* The attempt in flight on socket i fails: 'connect_error', then the
\* manager's reconnection.
ConnectError(i) ==
  /\ sockets[i].status \in InFlight
  /\ CommitChannel(reconnect(onConnectError(Channel), i))
  /\ lastOp' = "connect_error"
  /\ errorsInRow' = errorsInRow + 1
  /\ UnchangedScene

\* The server disconnects socket i: 'disconnect' with the reason
\* 'io server disconnect'; the manager does not reconnect by itself.
ServerDisconnect(i) ==
  /\ sockets[i].status = "connected"
  /\ CommitChannel(
       onDisconnect([Channel EXCEPT !.sockets[i].status = "closed"],
                    "io server disconnect"))
  /\ lastOp' = "server disconnect"
  /\ UNCHANGED errorsInRow
  /\ UnchangedScene

\* The transport of socket i closes: 'disconnect' with the reason
\* 'transport close', then the manager's first reconnection attempt.
TransportClose(i) ==
  /\ sockets[i].status = "connected"
  /\ CommitChannel(
       reconnect(
         onDisconnect([Channel EXCEPT !.sockets[i].status = "opening"],
                      "transport close"),
         i))
  /\ lastOp' = "transport close"
  /\ UNCHANGED errorsInRow
  /\ UnchangedScene

\* The server emits 'error' on socket i.
ErrorEvent(i) ==
  /\ sockets[i].status = "connected"
  /\ CommitChannel(onError(Channel))
  /\ lastOp' = "error"
  /\ UNCHANGED errorsInRow
  /\ UnchangedScene

\* The server emits 'scene_state' on socket i, here with the snapshot in
\* which bob speaks.
SceneStateEvent(i) ==
  /\ sockets[i].status = "connected"
  /\ Deliver(SnapshotB)

ChannelNext ==
  \/ CallConnect
  \/ CallDisconnect
  \/ \E i \in DOMAIN sockets : Connected(i)
  \/ \E i \in DOMAIN sockets : ConnectError(i)
  \/ \E i \in DOMAIN sockets : ServerDisconnect(i)
  \/ \E i \in DOMAIN sockets : TransportClose(i)
  \/ \E i \in DOMAIN sockets : ErrorEvent(i)
  \/ \E i \in DOMAIN sockets : SceneStateEvent(i)

ChannelSpec == Init /\ [][ChannelNext]_vars

\* The service with the ConnectionManager, which UIScene.create
\* initializes at any moment of the connection's life.
PresenterNext ==
  \/ Initialize
  \/ CallConnect
  \/ CallDisconnect
  \/ \E i \in DOMAIN sockets : Connected(i)
  \/ \E i \in DOMAIN sockets : ConnectError(i)
  \/ \E i \in DOMAIN sockets : ServerDisconnect(i)
  \/ \E i \in DOMAIN sockets : TransportClose(i)
  \/ \E i \in DOMAIN sockets : ErrorEvent(i)

PresenterSpec == Init /\ [][PresenterNext]_vars

\* ============================================================ claims
\* The events that ask for History, for Live or for a cursor move.
NavLeftOps == {"keyLeft", "clickPrev"}
NavRightOps == {"keyRight", "clickNext"}
NavOps == NavLeftOps \cup NavRightOps
KeyOps == {"keyH", "keyLeft", "keyRight"}

\* The rendered scene: the sprites with their tweens and indicators, and
\* the bubbles.
Rendered == <<characters, activeBubbles>>

\* C1: after any sequence of snapshot pushes, in Live or History mode,
\* the snapshot the StateManager holds is the last snapshot pushed.
C1_LastWriteWins == currentState = lastPushed

\* C1 witness: a snapshot pushed in History mode, whose log differs from
\* the frozen one, is the one held.
C1_Witness ==
  /\ lastOp = "push"
  /\ historyMode
  /\ currentState # <<>>
  /\ currentState[1].messages # conversationHistory

\* C2: a snapshot push handled while the mode is History leaves the
\* rendered characters and bubbles exactly as they were.
C2_PushInHistoryRendersNothing ==
  [][(lastOp' = "push" /\ historyMode) => UNCHANGED Rendered]_vars

\* C2 witness: in History mode a bubble is shown and the snapshot pushed
\* last gives a rendered character another action than the one rendered.
C2_Witness ==
  /\ lastOp = "push"
  /\ historyMode
  /\ activeBubbles # NoBubbles
  /\ \E c \in DOMAIN characters \cap DOMAIN currentState[1].characters :
       characters[c].action # currentState[1].characters[c]

\* An enterHistory event was handled last and the mode is History; an
\* exitHistory event was handled last and the mode is Live.  The H key
\* counts while the keyboard is not latched.
EnteredHistory ==
  /\ historyMode
  /\ lastOp = "clickPause" \/ (lastOp = "keyH" /\ isInteractionEnabled)

ExitedHistory ==
  /\ ~historyMode
  /\ lastOp = "clickPlay" \/ (lastOp = "keyH" /\ isInteractionEnabled)

\* The latest message of character c in snapshot s, <<>> if it has none.
LatestOf(s, c) ==
  LET mine == MessagesOf(s.messages, c)
  IN IF Len(mine) = 0 THEN <<>> ELSE <<mine[Len(mine)]>>

\* The bubbles snapshot s asks for: one for every speaking character
\* whose latest message has content; a speaking character without a
\* message is skipped.
ExpectedBubbles(s) ==
  [c \in {x \in DOMAIN s.characters :
            /\ s.characters[x] = "speaking"
            /\ LatestOf(s, x) # <<>>
            /\ Truthy(LatestOf(s, x)[1].content)} |->
     [content |-> LatestOf(s, c)[1].content,
      emoji |-> LatestOf(s, c)[1].mood_emoji,
      duration |-> LatestOf(s, c)[1].calculated_speaking_time * 1000,
      elapsed |-> 0]]

\* The scene shows snapshot s: its bubbles, and every character of s with
\* its action and its thinking indicator.
RendersSnapshot(s) ==
  /\ activeBubbles = ExpectedBubbles(s)
  /\ \A c \in DOMAIN s.characters :
       /\ c \in DOMAIN characters
       /\ characters[c].action = s.characters[c]
       /\ characters[c].thinking = IsThinking(s.characters[c])

\* C3: right after enterHistory the HistoryManager's log is the message
\* log of the snapshot the StateManager holds, and the cursor is the index
\* of that snapshot's last message (-1 for an empty log).
C3_EnterFreezesCurrentLog ==
  (EnteredHistory /\ currentState # <<>>) =>
    /\ conversationHistory = currentState[1].messages
    /\ currentHistoryIndex = Len(currentState[1].messages) - 1

\* C4: right after exitHistory the scene shows the snapshot applied last,
\* also one that arrived in History mode, and a snapshot pushed in Live
\* mode is shown again.
C4_ExitRendersCurrentSnapshot ==
  (currentState # <<>> /\ (ExitedHistory \/ (lastOp = "push" /\ ~historyMode)))
    => RendersSnapshot(currentState[1])

\* C5: right after exitHistory the cursor is the index of the last
\* message of the snapshot that is current.
C5_ExitCursorAtCurrentTail ==
  (ExitedHistory /\ currentState # <<>>) =>
    currentHistoryIndex = Len(currentState[1].messages) - 1

\* The characters with a running bounce tween, and with an indicator.
Bouncing == {c \in DOMAIN characters : characters[c].tween = "running"}
Thinking == {c \in DOMAIN characters : characters[c].thinking}

\* C6: entering History and at once leaving it (the H key with two
\* keydown-H handlers registered runs both handlers in one event), with
\* no snapshot in between, leaves the same bubbles, the same thinking
\* indicators and the same bouncing characters as before.
C6_RoundTripRestoresRendering ==
  [][(/\ lastOp' = "keyH"
      /\ isInteractionEnabled
      /\ keydownHHandlers = 2
      /\ ~historyMode
      /\ ~historyMode'
      /\ ~threw')
       => /\ activeBubbles' = activeBubbles
          /\ Thinking' = Thinking
          /\ Bouncing' = Bouncing]_vars

\* The event handled is a navigate(d) that reached the HistoryManager:
\* a navigation button or, with the keyboard not latched, an arrow key.
NavEvent(d) ==
  /\ lastOp \in (IF d = -1 THEN NavLeftOps ELSE NavRightOps)
  /\ lastOp \in KeyOps => isInteractionEnabled

\* C7: in History mode navigate(d) moves the cursor to cursor + d and
\* emits historyNavigate with that index when 0 <= cursor + d < the log's
\* length, and otherwise leaves the cursor where it is and emits nothing;
\* enterHistory puts the cursor on the last message.
C7_Navigate ==
  /\ [](EnteredHistory => currentHistoryIndex = Len(conversationHistory) - 1)
  /\ [][\A d \in {-1, 1} :
          (NavEvent(d)' /\ historyMode) =>
            LET newIndex == currentHistoryIndex + d
            IN IF newIndex >= 0 /\ newIndex < Len(conversationHistory)
                 THEN /\ currentHistoryIndex' = newIndex
                      /\ emitted' = <<newIndex>>
                 ELSE /\ currentHistoryIndex' = currentHistoryIndex
                      /\ emitted' = <<>>]_vars

\* C7 witness: with a log of 3 messages a navigate(-1) was rejected at
\* index 0.
C7_Witness ==
  /\ NavEvent(-1)
  /\ historyMode
  /\ Len(conversationHistory) = 3
  /\ currentHistoryIndex = 0
  /\ emitted = <<>>

\* C8: navigate(+1) with the cursor on the last message of a non-empty
\* log leaves the cursor and everything else as it is, emits no
\* historyNavigate and starts the invalid-navigation feedback once.
C8_RejectedNextAtTail ==
  [][(/\ NavEvent(1)'
      /\ historyMode
      /\ Len(conversationHistory) > 0
      /\ currentHistoryIndex = Len(conversationHistory) - 1)
       => /\ UNCHANGED <<currentHistoryIndex, conversationHistory,
                         currentState, historyMode, isInHistoryMode,
                         characters, activeBubbles>>
          /\ emitted' = <<>>
          /\ invalidFeedback' = 1]_vars

\* C9: a navigate event handled while the mode is Live changes neither
\* the cursor nor the rendered scene.
C9_NavigateOnlyInHistory ==
  [][(lastOp' \in NavOps /\ ~historyMode)
       => UNCHANGED <<currentHistoryIndex, characters, activeBubbles>>]_vars

\* C10: while the modal is open the H key and the arrow keys change
\* neither the mode nor the cursor, in Live and in History mode, and the
\* input latch, once set, is released by the modal's close alone.
C10_ModalLatch ==
  /\ [][(lastOp' \in KeyOps /\ isModalOpen)
          => UNCHANGED <<historyMode, isInHistoryMode, currentHistoryIndex>>]_vars
  /\ [][(~isInteractionEnabled /\ isInteractionEnabled')
          => lastOp' = "modalClose"]_vars
  /\ [][(isModalOpen /\ isModalOpen') => ~isInteractionEnabled']_vars

\* C10 witness: the LEFT key went down in History mode with the modal
\* open and the cursor on a message that has a predecessor.
C10_Witness ==
  /\ lastOp = "keyLeft"
  /\ isModalOpen
  /\ historyMode
  /\ currentHistoryIndex > 0

\* A scene_state event was handled last, in Live mode: effect derivation
\* ran on the snapshot that is current.
DerivedLive == lastOp = "push" /\ ~historyMode /\ currentState # <<>>

\* C11: after effect derivation on a snapshot in Live mode every bubble
\* belongs to a character of the snapshot whose action is speaking; an
\* idle or thinking character has none, whatever it had before.
C11_NoBubbleUnlessSpeaking ==
  DerivedLive =>
    \A c \in DOMAIN activeBubbles :
      /\ c \in DOMAIN currentState[1].characters
      /\ currentState[1].characters[c] = "speaking"

\* C11 witness: alice, whose message "hi" is in the log, is idle in the
\* snapshot derived last and bob, speaking, has the only bubble.
C11_Witness ==
  /\ DerivedLive
  /\ currentState[1].characters = Roster("idle", "speaking")
  /\ Len(MessagesOf(currentState[1].messages, "alice")) > 0
  /\ DOMAIN activeBubbles = {"bob"}

\* c has a message with content in snapshot s.
HasContent(s, c) ==
  \E i \in 1..Len(s.messages) :
    s.messages[i].character = c /\ Truthy(s.messages[i].content)

\* C12: after effect derivation on a snapshot in Live mode every speaking
\* character that has a message with content has the bubble keyed by its
\* id, with the content and the mood glyph of its latest message.
C12_SpeakerGetsLatestMessage ==
  DerivedLive =>
    \A c \in DOMAIN currentState[1].characters :
      (currentState[1].characters[c] = "speaking"
         /\ HasContent(currentState[1], c)) =>
        /\ c \in DOMAIN activeBubbles
        /\ activeBubbles[c].content = LatestOf(currentState[1], c)[1].content
        /\ activeBubbles[c].emoji = LatestOf(currentState[1], c)[1].mood_emoji

\* A speaking character of s has no message in the log of s.
Malformed(s) ==
  \E c \in DOMAIN s.characters :
    s.characters[c] = "speaking" /\ LatestOf(s, c) = <<>>

\* C13: a snapshot with a speaking character that has no message is
\* handled to the end: no exception leaves the listener, the other
\* speaking characters have their bubbles, the one without a message has
\* none, and the HistoryManager has received the snapshot's log.
C13_MalformedSnapshotHandled ==
  (DerivedLive /\ Malformed(currentState[1])) =>
    /\ ~threw
    /\ activeBubbles = ExpectedBubbles(currentState[1])
    /\ conversationHistory = currentState[1].messages

\* The decay signal of c's bubble: the scaleX of the progress bar's fill
\* in thousandths, 1000 at the start of the tween and 0 at its end.
Decay(c) ==
  ((activeBubbles[c].duration - activeBubbles[c].elapsed) * 1000)
    \div activeBubbles[c].duration

\* C14: once snapshot B is applied bob's bubble holds "hello" with a
\* decay window of 4 seconds that starts with the bubble, and with no
\* further event the decay signal is zero from the 4th second on and not
\* before.
C14_DecayWindow ==
  (lastOp = "push" /\ lastPushed = <<SnapshotB>>) =>
    /\ "bob" \in DOMAIN activeBubbles
    /\ activeBubbles["bob"].content = "hello"
    /\ activeBubbles["bob"].duration = 4000
    /\ sinceEvent = 0 => Decay("bob") = 1000
    /\ Decay("bob") = 0 <=> sinceEvent >= 4

\* C14 witness: 4 seconds after B was applied, with no event since.
C14_Witness ==
  /\ lastOp = "push"
  /\ lastPushed = <<SnapshotB>>
  /\ sinceEvent = 4
  /\ Decay("bob") = 0

\* C15: a snapshot pushed a second time in a row in Live mode leaves the
\* bubbles, with their content, and the thinking indicators as the first
\* push left them.
C15_DuplicatePushIdempotent ==
  [][(lastOp' = "push" /\ repeated' /\ ~historyMode)
       => /\ activeBubbles' = activeBubbles
          /\ Thinking' = Thinking
          /\ threw' = threw]_vars

\* C15 witness: the snapshot handled last repeated the one before it and
\* left a bubble on the scene.
C15_Witness ==
  /\ lastOp = "push"
  /\ repeated
  /\ ~historyMode
  /\ activeBubbles # NoBubbles

\* A connection attempt is in flight on the service's socket.
AttemptInFlight == socket # 0 /\ sockets[socket].status \in InFlight

\* C16: connect() called while the socket is connected or while a
\* connection attempt, the first one or an automatic reconnection, is in
\* flight makes no socket and changes no field of the service.
C16_ConnectIdempotent ==
  [][(lastOp' = "connect()"
        /\ (socketConnected(Channel) \/ isConnecting \/ AttemptInFlight))
       => UNCHANGED <<sockets, socket, isConnecting, reconnectAttempts>>]_vars

\* C17: right after disconnect(), called by a caller or by the
\* connect_error handler on exhausted retries, reconnectAttempts is 0.
C17_DisconnectResetsCounter ==
  /\ [](lastOp = "disconnect()" => reconnectAttempts = 0)
  /\ [][(lastOp' = "connect_error" /\ socket # 0 /\ socket' = 0)
          => reconnectAttempts' = 0]_vars

\* No socket has a connection attempt in flight.
NoAttemptInFlight == \A i \in DOMAIN sockets : sockets[i].status \notin InFlight

\* C18: when the 5th connect_error in a row (none of them followed by a
\* connect event) has been handled the service has no socket, is not
\* connecting, and no connection attempt is in flight or will be made.
C18_TerminalAfterFiveErrors ==
  (lastOp = "connect_error" /\ errorsInRow >= MAX_RECONNECT_ATTEMPTS) =>
    /\ socket = 0
    /\ ~isConnecting
    /\ NoAttemptInFlight

\* C19: a connect event sets reconnectAttempts to 0, and a connect_error
\* tears the socket down only if it is at least the 5th since the last
\* connect event.
C19_OnlyConsecutiveErrorsCount ==
  /\ [](lastOp = "connect" => reconnectAttempts = 0)
  /\ [][(lastOp' = "connect_error" /\ socket # 0 /\ socket' = 0)
          => errorsInRow' >= MAX_RECONNECT_ATTEMPTS]_vars

\* C19 witness: four connect_error events have been handled since a
\* connect event and the service still has its socket, with the
\* manager's next attempt in flight.
C19_Witness ==
  /\ lastOp = "connect_error"
  /\ errorsInRow = MAX_RECONNECT_ATTEMPTS - 1
  /\ Len(sockets) = 1
  /\ sockets[1].tries = MAX_RECONNECT_ATTEMPTS - 1
  /\ sockets[1].status = "reconnecting"
  /\ socket = 1
  /\ ~isConnecting

\* C20: handling a disconnect by the server starts exactly one
\* connection attempt and leaves reconnectAttempts as it is; handling a
\* disconnect for another reason starts none.
C20_ServerDisconnectReconnectsOnce ==
  /\ [][lastOp' = "server disconnect"
          => started' = 1 /\ reconnectAttempts' = reconnectAttempts]_vars
  /\ [][lastOp' \in {"transport close", "disconnect()"} => started' = 0]_vars

\* The retries are exhausted: five connect_error events in a row have
\* been handled and no connect event since.
Exhausted == errorsInRow >= MAX_RECONNECT_ATTEMPTS

\* C21: from the moment the retries are exhausted until a connection
\* succeeds, the indicator of the initialized ConnectionManager shows
\* 'Disconnected', never 'Reconnecting'.
C21_ExhaustedShowsDisconnected ==
  (Exhausted /\ connectionStatus # "none") => connectionStatus = "Disconnected"

\* The listeners subscribed to 'scene_state', oldest first.
Subscribed == listeners["scene_state"]

\* C22: when a scene_state event has been handled, the listeners called
\* are all the listeners subscribed to it, in the order in which they
\* subscribed.
C22_NotifiedInSubscriptionOrder == lastOp = "push" => notified = Subscribed

\* C23: when a listener has thrown while a scene_state event was handled,
\* every listener subscribed to the event has still been called.
C23_ListenerFailureIsolated ==
  (lastOp = "push" /\ threw) =>
    \A k \in DOMAIN Subscribed :
      \E j \in DOMAIN notified : notified[j] = Subscribed[k]

\* C24: a listener that subscribes when a snapshot has been pushed is
\* called once with that snapshot while it subscribes: the StateManager
\* of a scene created after a push holds the snapshot pushed last.
C24_LateSubscriberGetsCurrent ==
  (lastOp = "create" /\ lastPushed # <<>>) =>
    /\ notified = <<Subscribed[Len(Subscribed)]>>
    /\ currentState = lastPushed

\* C30: a scene that is shut down has no scene_state handler subscribed
\* and none of its handlers is called by a later push; a running scene
\* has exactly one, also after a restart.
C30_DestroyUnsubscribes ==
  /\ boundHandlers(Subscribed) = (IF sceneRunning THEN 1 ELSE 0)
  /\ (lastOp = "push" /\ ~sceneRunning) => boundHandlers(notified) = 0

\* disconnect() has torn a socket down and connect() was not called
\* since: connect() always makes a socket when the service has none.
TornDown == socket = 0 /\ sockets # <<>>

\* C25: from the return of disconnect() until connect() is called again
\* no connection attempt is in flight on any socket, and no connect and
\* no scene_state event is handled.
C25_DisconnectCancels ==
  TornDown => (NoAttemptInFlight /\ lastOp \notin {"connect", "push"})

\* C26: while the HistoryManager or the StateManager is in History mode,
\* so after every enterHistory and every committed navigate, no bubble
\* on the scene has a progress bar, whatever the speaking time of its
\* message.
C26_HistoricalBubbleStatic ==
  (historyMode \/ isInHistoryMode) =>
    \A c \in DOMAIN activeBubbles : activeBubbles[c].duration = 0

\* C26 witness: a committed navigate to the first message, bob's "hello"
\* with a calculated speaking time of 4, has put its bubble on the scene.
C26_Witness ==
  /\ historyMode
  /\ lastOp \in NavOps
  /\ emitted = <<0>>
  /\ conversationHistory # <<>>
  /\ conversationHistory[1].calculated_speaking_time = 4
  /\ DOMAIN activeBubbles = {"bob"}
  /\ activeBubbles["bob"].content = "hello"

\* The scene is in Live mode and holds a snapshot.
LiveWithSnapshot == ~historyMode /\ ~isInHistoryMode /\ currentState # <<>>

\* C27: in Live mode every character of the current snapshot has a
\* thinking indicator exactly if its action there begins with 'thinking':
\* after every render, and for as long as no later snapshot gives it
\* another action.
C27_ThinkingIndicator ==
  LiveWithSnapshot =>
    \A c \in DOMAIN currentState[1].characters :
      /\ c \in DOMAIN characters
      /\ characters[c].thinking = IsThinking(currentState[1].characters[c])

\* C27 witness: after a History round trip that followed the snapshot
\* which set alice thinking she has her indicator again; bob, idle, has
\* none.
C27_Witness ==
  /\ LiveWithSnapshot
  /\ ExitedHistory
  /\ currentState[1].characters = Roster("thinking", "idle")
  /\ characters["alice"].thinking
  /\ ~characters["bob"].thinking

\* C28: a scene_state event handled while the HistoryManager is in
\* History mode leaves its log and its cursor as they were.
C28_PushInHistoryKeepsFrozenLog ==
  [][(lastOp' = "push" /\ historyMode)
       => UNCHANGED <<conversationHistory, currentHistoryIndex>>]_vars

\* C28 witness: a snapshot pushed in History mode whose log differs from
\* the frozen one, which is not empty.
C28_Witness ==
  /\ lastOp = "push"
  /\ historyMode
  /\ conversationHistory # <<>>
  /\ lastPushed[1].messages # conversationHistory

\* The cursor has just been set: by enterHistory or a committed navigate.
CursorSet ==
  historyMode /\ (EnteredHistory \/ (lastOp \in NavOps /\ emitted # <<>>))

\* C29: right after enterHistory and after every committed navigate the
\* bubble on the scene is the one of the message at the cursor in the
\* HistoryManager's frozen log, whatever snapshots have arrived in
\* History mode.
C29_DisplayedIsCursorMessage ==
  CursorSet =>
    activeBubbles =
      showHistoricalBubble(
        characters, At(conversationHistory, currentHistoryIndex)).bubbles

\* C31: every snapshot push in Live mode clears all effects and
\* recreates them: right after the push every bubble's countdown stands
\* at its start (nothing elapsed), whatever had elapsed before, also when
\* the pushed snapshot is the one already shown.
C31_PushRestartsCountdown ==
  [][(lastOp' = "push" /\ sinceEvent' = 0 /\ ~historyMode')
       => \A c \in DOMAIN activeBubbles' :
            activeBubbles'[c].elapsed = 0]_vars

\* The same snapshot pushed twice in a row, a timed bubble restarted.
C31_Witness ==
  /\ lastOp = "push" /\ repeated /\ sinceEvent = 0 /\ ~historyMode
  /\ \E c \in DOMAIN activeBubbles :
       activeBubbles[c].duration > 0 /\ activeBubbles[c].elapsed = 0

\* C32: a mode event that does not match the current mode is a no-op:
\* enterHistory (the pause button) handled while the mode is History
\* leaves the mode and the cursor as they were, and exitHistory (the play
\* button) handled while the mode is Live leaves mode, cursor and log as
\* they were.
C32_MismatchedModeEventIsNoOp ==
  [][/\ (lastOp' = "clickPause" /\ historyMode)
          => (historyMode' /\ currentHistoryIndex' = currentHistoryIndex)
     /\ (lastOp' = "clickPlay" /\ ~historyMode)
          => UNCHANGED <<historyMode, currentHistoryIndex,
                         conversationHistory>>]_vars

\* C33: enterHistory while the current snapshot and the HistoryManager
\* hold an empty message log completes without an exception: the mode
\* is History in the HistoryManager and in the StateManager, the cursor
\* is -1, no bubble is shown and the listeners after the StateManager's
\* (the controls) have been notified.
C33_EnterHistoryOnEmptyLog ==
  (/\ EnteredHistory
   /\ currentState # <<>>
   /\ currentState[1].messages = <<>>
   /\ conversationHistory = <<>>)
    => /\ ~threw
       /\ historyMode /\ isInHistoryMode
       /\ currentHistoryIndex = -1
       /\ activeBubbles = NoBubbles
       /\ historyControls

\* C34: with input enabled, one press of the H key changes the mode
\* exactly once, from Live to History or from History to Live, however
\* many times the modal has been opened and closed before.
C34_KeyHTogglesOnce ==
  [][(lastOp' = "keyH" /\ isInteractionEnabled /\ keyboardEnabled)
       => historyMode' # historyMode]_vars

\* The sockets of the service that are connected or have a connection
\* attempt in flight; each carries the handlers connect() attached.
LiveSockets == {i \in DOMAIN sockets : sockets[i].status # "closed"}

\* C35: across every interleaving of connect(), disconnect(), disconnect
\* events and reconnections at most one socket with event-forwarding
\* handlers is live, so that a snapshot pushed by the server reaches
\* each subscribed listener once.
C35_AtMostOneLiveSocket == Cardinality(LiveSockets) <= 1

\* C36: the mode starts as Live, and after every event, so after every
\* enterHistory and exitHistory event that has been handled to its end
\* or to an exception, the StateManager's history flag equals the
\* HistoryManager's.
C36_ModeFlagsAgree ==
  /\ lastOp = "init" => (~historyMode /\ ~isInHistoryMode)
  /\ isInHistoryMode = historyMode

\* An enterHistory whose render threw: both flags are History.
C36_Witness ==
  /\ EnteredHistory
  /\ threw
  /\ isInHistoryMode

\* C37: in every reachable state the cursor of the HistoryManager lies
\* between -1 and the last index of the HistoryManager's own log, and it
\* is -1 exactly when that log is empty.
C37_CursorInRange ==
  /\ -1 <= currentHistoryIndex
  /\ currentHistoryIndex <= Len(conversationHistory) - 1
  /\ (currentHistoryIndex = -1) <=> (conversationHistory = <<>>)

\* A navigate(-1) rejected at the head of a log of several messages.
C37_Witness ==
  /\ historyMode
  /\ lastOp \in NavLeftOps
  /\ emitted = <<>>
  /\ currentHistoryIndex = 0
  /\ Len(conversationHistory) > 1

\* C38: in Live mode every character of the current snapshot whose
\* action is not idle has a running bounce animation and every idle one
\* has none, after any sequence of pushes and History round trips; also
\* a character first seen as speaking and one that stays speaking.
C38_BounceIffActive ==
  LiveWithSnapshot =>
    \A c \in DOMAIN currentState[1].characters :
      /\ c \in DOMAIN characters
      /\ (characters[c].tween = "running")
           <=> (currentState[1].characters[c] # "idle")

\* C39: after a snapshot is rendered in Live mode the characters on the
\* scene are exactly the characters of that snapshot; one that the new
\* snapshot no longer has is removed.
C39_RenderedAreSnapshotCharacters ==
  DerivedLive => DOMAIN characters = DOMAIN currentState[1].characters

\* C40: once the ConnectionManager is initialized its isConnected flag
\* equals the connection state of the service's socket, also when the
\* socket connected before the ConnectionManager subscribed.
C40_PresenterMatchesChannel ==
  connectionStatus # "none" => (isConnected <=> socketConnected(Channel))

====
